---- MODULE Spec2Model ----
(***************************************************************************)
(* A model of Application.py (materials-predictor): the formula extractor, *)
(* the two-provider generate/evaluate/consensus pipeline, the memoized     *)
(* Materials Project lookup and the ranking of the found records.          *)
(*                                                                         *)
(* Texts are sequences of one-character strings.  The characters of the    *)
(* model are those of Chars; the Python and JSON list parsers are modelled *)
(* on sequences over Chars.                                                *)
(***************************************************************************)
EXTENDS Integers, Sequences, FiniteSets, TLC

VARIABLES
    text,            \* extract_formulas: the argument text (or None)
    embedded,        \* the literal list the input text was built around (or NoList)
    xresult,         \* extract_formulas: the returned list
    xpc,             \* "input" before the call, "done" after it
    qreply,          \* query_mp_for_formula: what mpr.materials.summary.search does
    qresult,         \* query_mp_for_formula: the returned value
    qpc,             \* "input" before the call, "done" after it
    keys,            \* OPENAI_API_KEY, GEMINI_API_KEY, MATERIALS_PROJECT_API_KEY
    clients,         \* client, gemini_model and mpr are constructed (lines 46-49)
    pc,              \* the position of the script run
    clicked,         \* st.button("Find Best Material") of this script run
    user_query,      \* the text input
    openai_formulas, gemini_formulas, combined,
    openai_eval, gemini_eval, final_materials,
    material_list,   \* the list each evaluator was called with
    idx,             \* find_best_material: the position of its loop
    candidates,      \* find_best_material: the found records
    best_list,
    ridx,            \* the position of the loop over best_list, line 348
    cache,           \* st.cache_resource of query_mp_for_formula
    dbqueries,       \* per formula, the calls of mpr.materials.summary.search
    lookups,         \* the formulas query_mp_for_formula was called with, this run
    served,          \* those of them answered from the cache
    returned,        \* the provider calls that have returned, this run
    failed,          \* the stages that reported a caught failure, this run
    outcome          \* how the script run ended

xvars == <<text, embedded, xresult, xpc>>
qvars == <<qreply, qresult, qpc>>
locals ==
    <<openai_formulas, gemini_formulas, combined, openai_eval, gemini_eval,
      final_materials, material_list, idx, candidates, best_list, ridx>>
pvars ==
    <<keys, clients, pc, clicked, user_query, locals, cache, dbqueries, lookups,
      served, returned, failed, outcome>>
vars == <<xvars, qvars, pvars>>

\* Python's None where a text is expected, and the marker of an input text
\* that was not built around a list (both sequences, unlike any text)
NoneText == <<"NoneObject">>
NoList == <<<<"NoList">>>>

(***************************************************************************)
(* Characters and texts                                                    *)
(***************************************************************************)
LB == "["
RB == "]"
SQ == "'"
DQ == "\""
COMMA == ","
SP == " "
NL == "\n"
\* the backtick character (a string of its own: the lexer takes no backtick)
BT == "BT"
MINUS == "-"

\* letters of the model: formula letters, the letters of NaN and None, and
\* the letters of the fence tags "python" and "text"
Letters == {"A", "Z", "Q", "N", "a", "p", "y", "t", "h", "o", "n", "e", "x"}
Chars == {LB, RB, SQ, DQ, COMMA, SP, NL, BT, MINUS} \cup Letters

PythonTag == <<"p", "y", "t", "h", "o", "n">>
TextTag == <<"t", "e", "x", "t">>

\* s[i..j] as a sequence, empty when j < i
Slice(s, i, j) == IF j < i THEN <<>> ELSE SubSeq(s, i, j)

\* pat occurs in s at position i
MatchAt(s, i, pat) ==
    /\ i >= 1
    /\ i + Len(pat) - 1 <= Len(s)
    /\ \A k \in 1..Len(pat) : s[i + k - 1] = pat[k]

\* the least n in S (S non-empty)
Least(S) == CHOOSE n \in S : \A m \in S : n <= m

(***************************************************************************)
(* extract_formulas, line 136: re.sub of the fence pattern                 *)
(*   BT BT BT (python|text)? NL   |   BT BT BT                             *)
(***************************************************************************)
Fence == <<BT, BT, BT>>

\* the length of the regex's match at position i, 0 when it does not match
FenceMatchLen(s, i) ==
    IF ~MatchAt(s, i, Fence) THEN 0
    ELSE IF MatchAt(s, i + 3, PythonTag \o <<NL>>) THEN 3 + Len(PythonTag) + 1
    ELSE IF MatchAt(s, i + 3, TextTag \o <<NL>>) THEN 3 + Len(TextTag) + 1
    ELSE IF MatchAt(s, i + 3, <<NL>>) THEN 4
    ELSE 3

RECURSIVE StripFrom(_, _)
StripFrom(s, i) ==
    IF i > Len(s) THEN <<>>
    ELSE LET n == FenceMatchLen(s, i)
         IN IF n > 0 THEN StripFrom(s, i + n)
            ELSE <<s[i]>> \o StripFrom(s, i + 1)

StripFences(s) == StripFrom(s, 1)

(***************************************************************************)
(* extract_formulas, line 139: re.search(r"\[.*?\]", s, re.DOTALL)         *)
(***************************************************************************)
\* the match as <<first, last>> positions, or <<0, 0>> when there is none
SearchList(s) ==
    LET opens == {i \in 1..Len(s) : s[i] = LB /\ \E j \in (i + 1)..Len(s) : s[j] = RB}
    IN IF opens = {} THEN <<0, 0>>
       ELSE LET i == Least(opens)
                j == Least({k \in (i + 1)..Len(s) : s[k] = RB})
            IN <<i, j>>

(***************************************************************************)
(* Tokens of a bracketed candidate (the text between "[" and "]").         *)
(* A token is <<kind, value>>: "str" with its content, "name" with its     *)
(* letters, "comma", or "bad" for an unterminated string or a character    *)
(* no list of strings may hold.                                            *)
(***************************************************************************)
IsSpace(c) == c \in {SP, NL}
IsQuote(c) == c \in {SQ, DQ}
IsLetter(c) == c \in Letters

\* positions j >= i where the three-quote closer qqq starts
TripleClosers(s, i, q) == {j \in i..Len(s) : MatchAt(s, j, <<q, q, q>>)}
\* positions j >= i holding quote q
Closers(s, i, q) == {j \in i..Len(s) : s[j] = q}
\* the end of the run of letters that starts at i
NameEnd(s, i) == Least({j \in i..Len(s) : j = Len(s) \/ ~IsLetter(s[j + 1])})

Bad == <<"bad", <<>>>>

\* Python's tokenizer on s from position i
RECURSIVE PyTokens(_, _)
PyTokens(s, i) ==
    IF i > Len(s) THEN <<>>
    ELSE LET c == s[i] IN
      IF IsSpace(c) THEN PyTokens(s, i + 1)
      ELSE IF c = COMMA THEN <<<<"comma", <<>>>>>> \o PyTokens(s, i + 1)
      ELSE IF IsLetter(c)
        THEN LET j == NameEnd(s, i)
             IN <<<<"name", SubSeq(s, i, j)>>>> \o PyTokens(s, j + 1)
      ELSE IF IsQuote(c) THEN
        IF MatchAt(s, i, <<c, c, c>>)
        THEN \* a triple-quoted string: closed by the first qqq, may hold newlines
             LET cl == TripleClosers(s, i + 3, c)
             IN IF cl = {} THEN <<Bad>>
                ELSE LET j == Least(cl)
                     IN <<<<"str", Slice(s, i + 3, j - 1)>>>> \o PyTokens(s, j + 3)
        ELSE \* closed by the next q on the same line
             LET cl == Closers(s, i + 1, c)
             IN IF cl = {} THEN <<Bad>>
                ELSE LET j == Least(cl)
                     IN IF \E k \in (i + 1)..(j - 1) : s[k] = NL THEN <<Bad>>
                        ELSE <<<<"str", Slice(s, i + 1, j - 1)>>>> \o PyTokens(s, j + 1)
      ELSE <<Bad>>

\* json's scanner on s from position i: double-quoted strings without control
\* characters, and names
RECURSIVE JsonTokens(_, _)
JsonTokens(s, i) ==
    IF i > Len(s) THEN <<>>
    ELSE LET c == s[i] IN
      IF IsSpace(c) THEN JsonTokens(s, i + 1)
      ELSE IF c = COMMA THEN <<<<"comma", <<>>>>>> \o JsonTokens(s, i + 1)
      ELSE IF IsLetter(c)
        THEN LET j == NameEnd(s, i)
             IN <<<<"name", SubSeq(s, i, j)>>>> \o JsonTokens(s, j + 1)
      ELSE IF c = DQ THEN
             LET cl == Closers(s, i + 1, DQ)
             IN IF cl = {} THEN <<Bad>>
                ELSE LET j == Least(cl)
                     IN IF \E k \in (i + 1)..(j - 1) : s[k] = NL THEN <<Bad>>
                        ELSE <<<<"str", Slice(s, i + 1, j - 1)>>>> \o JsonTokens(s, j + 1)
      ELSE <<Bad>>

(***************************************************************************)
(* ast.literal_eval and json.loads on a candidate "[" ... "]".             *)
(* A parsed list is a sequence of values <<"str", content>> or             *)
(* <<"other", <<>>>> (None, nan); ParseError stands for the exception,     *)
(* NoParse for the None that line 151 assigns.                             *)
(***************************************************************************)
ParseError == <<<<"error", <<>>>>>>
NoParse == <<<<"none", <<>>>>>>
Other == <<"other", <<>>>>

IsStr(tok) == tok[1] = "str"
IsComma(tok) == tok[1] = "comma"
IsName(tok, letters) == tok[1] = "name" /\ tok[2] = letters

\* the last index of the run of string tokens that starts at i
StrRunEnd(toks, i) ==
    Least({j \in i..Len(toks) : j = Len(toks) \/ ~IsStr(toks[j + 1])})

RECURSIVE Concat(_, _, _)
Concat(toks, i, j) ==
    IF i > j THEN <<>> ELSE toks[i][2] \o Concat(toks, i + 1, j)

\* Python: items separated by commas, a trailing comma allowed, adjacent
\* string literals concatenated, None a constant, any other name an error
RECURSIVE PyItems(_, _)
PyItems(toks, i) ==
    IF i > Len(toks) THEN <<>>
    ELSE LET j == IF IsStr(toks[i]) THEN StrRunEnd(toks, i) ELSE i
             item == IF IsStr(toks[i]) THEN <<"str", Concat(toks, i, j)>> ELSE Other
         IN IF ~(IsStr(toks[i]) \/ IsName(toks[i], <<"N", "o", "n", "e">>))
              THEN ParseError
            ELSE IF j = Len(toks) THEN <<item>>
            ELSE IF ~IsComma(toks[j + 1]) THEN ParseError
            ELSE LET rest == PyItems(toks, j + 2)
                 IN IF rest = ParseError THEN ParseError ELSE <<item>> \o rest

\* ast.literal_eval(candidate), line 145
literal_eval(candidate) ==
    PyItems(PyTokens(Slice(candidate, 2, Len(candidate) - 1), 1), 1)

\* JSON: values separated by commas, no trailing comma, strings and NaN
RECURSIVE JsonItems(_, _)
JsonItems(toks, i) ==
    IF i > Len(toks) THEN ParseError
    ELSE LET item == IF IsStr(toks[i]) THEN toks[i] ELSE Other
         IN IF ~(IsStr(toks[i]) \/ IsName(toks[i], <<"N", "a", "N">>))
              THEN ParseError
            ELSE IF i = Len(toks) THEN <<item>>
            ELSE IF ~IsComma(toks[i + 1]) THEN ParseError
            ELSE LET rest == JsonItems(toks, i + 2)
                 IN IF rest = ParseError THEN ParseError ELSE <<item>> \o rest

\* json.loads(candidate), line 149
json_loads(candidate) ==
    LET toks == JsonTokens(Slice(candidate, 2, Len(candidate) - 1), 1)
    IN IF toks = <<>> THEN <<>> ELSE JsonItems(toks, 1)

\* a variant that, when both parsers fail, scrapes the names and strings it
\* can find in the candidate
RECURSIVE ScrapeTokens(_)
ScrapeTokens(toks) ==
    IF toks = <<>> THEN <<>>
    ELSE IF toks[1][1] \in {"str", "name"}
           THEN <<<<"str", toks[1][2]>>>> \o ScrapeTokens(Tail(toks))
           ELSE ScrapeTokens(Tail(toks))
ParseCandidate_Scrape(candidate) ==
    LET py == literal_eval(candidate)
    IN IF py # ParseError THEN py
       ELSE LET js == json_loads(candidate)
            IN IF js # ParseError THEN js
               ELSE ScrapeTokens(PyTokens(Slice(candidate, 2, Len(candidate) - 1), 1))

\* lines 142-151: literal_eval, then json.loads, then None
ParseCandidate(candidate) ==
    LET py == literal_eval(candidate)
    IN IF py # ParseError THEN py
       ELSE LET js == json_loads(candidate)
            IN IF js # ParseError THEN js ELSE NoParse

(***************************************************************************)
(* extract_formulas, lines 153-169: validation and deduplication           *)
(***************************************************************************)
\* str.strip()
RECURSIVE LStrip(_)
LStrip(s) == IF s # <<>> /\ IsSpace(s[1]) THEN LStrip(Tail(s)) ELSE s
RECURSIVE RStrip(_)
RStrip(s) ==
    IF s # <<>> /\ IsSpace(s[Len(s)]) THEN RStrip(SubSeq(s, 1, Len(s) - 1)) ELSE s
Strip(s) == RStrip(LStrip(s))

\* the characters of Chars in the class [A-Za-z0-9()]
IsFormulaChar(c) == c \in Letters
\* re.match(r"^[A-Za-z0-9()]+$", s), line 160, on a stripped s
IsFormulaToken(s) == s # <<>> /\ \A k \in 1..Len(s) : IsFormulaChar(s[k])

\* lines 154-161
RECURSIVE ValidItems(_)
ValidItems(formulas) ==
    IF formulas = <<>> THEN <<>>
    ELSE LET item == formulas[1]
             s == Strip(item[2])
         IN IF item[1] = "str" /\ IsFormulaToken(s)
              THEN <<s>> \o ValidItems(Tail(formulas))
              ELSE ValidItems(Tail(formulas))

InSeq(x, s) == \E k \in 1..Len(s) : s[k] = x

\* lines 163-168 (and 292-297): keep first occurrences, in order
RECURSIVE DedupInto(_, _)
DedupInto(out, rest) ==
    IF rest = <<>> THEN out
    ELSE IF InSeq(rest[1], out) THEN DedupInto(out, Tail(rest))
    ELSE DedupInto(Append(out, rest[1]), Tail(rest))
Dedup(s) == DedupInto(<<>>, s)

\* extract_formulas(text), lines 129-175
extract_formulas(txt) ==
    IF txt = NoneText \/ txt = <<>> THEN <<>>
    ELSE LET text_clean == StripFences(txt)
             match == SearchList(text_clean)
         IN IF match[1] = 0 THEN <<>>
            ELSE LET formulas == ParseCandidate(SubSeq(text_clean, match[1], match[2]))
                 IN IF formulas = NoParse THEN <<>>
                    ELSE Dedup(ValidItems(formulas))

(***************************************************************************)
(* Input texts of the extractor                                            *)
(***************************************************************************)
MaxElems == 3
MaxTextLen == 5

\* all sequences over S of length at most n
RECURSIVE SeqsUpTo(_, _)
SeqsUpTo(S, n) ==
    IF n = 0 THEN {<<>>}
    ELSE LET shorter == SeqsUpTo(S, n - 1)
         IN shorter \cup {Append(q, c) : q \in {r \in shorter : Len(r) = n - 1}, c \in S}

\* string elements of an embedded list: formulas, a padded formula, and
\* strings that are no formula (a space, a bracket inside)
ElemStrings ==
    { <<"A">>, <<"Z">>, <<SP, "A">>, <<"A", SP, "Z">>, <<"A", RB>>, <<LB, "A">> }

\* the text of a Python list of strings, as str(list) prints it
RECURSIVE RenderItems(_)
RenderItems(elems) ==
    IF elems = <<>> THEN <<>>
    ELSE <<SQ>> \o elems[1] \o <<SQ>>
         \o (IF Len(elems) > 1 THEN <<COMMA, SP>> ELSE <<>>)
         \o RenderItems(Tail(elems))
Render(elems) == <<LB>> \o RenderItems(elems) \o <<RB>>

\* what may precede the list: nothing, prose, a code fence, brackets
Prefixes ==
    { <<>>, <<"a", SP>>, Fence \o PythonTag \o <<NL>>, Fence \o <<NL>>, Fence,
      <<LB>>, <<LB, "a", RB, SP>>, <<RB, SP>> }
Suffixes == { <<>>, <<NL>> \o Fence, <<SP, "a">> }

ArbChars == {LB, RB, SQ, COMMA, SP, "A"}
ArbTexts == SeqsUpTo(ArbChars, MaxTextLen) \cup {NoneText}

XIdle ==
    /\ text = <<>>
    /\ embedded = NoList
    /\ xresult = <<>>
    /\ xpc = "idle"

XInit ==
    /\ xpc = "input"
    /\ xresult = <<>>
    /\ \/ /\ text \in ArbTexts
          /\ embedded = NoList
       \/ /\ embedded \in SeqsUpTo(ElemStrings, MaxElems)
          /\ \E pre \in Prefixes, suf \in Suffixes :
                text = pre \o Render(embedded) \o suf

\* a call extract_formulas(text)
ExtractCall ==
    /\ xpc = "input"
    /\ xresult' = extract_formulas(text)
    /\ xpc' = "done"
    /\ UNCHANGED <<text, embedded, qvars, pvars>>

(***************************************************************************)
(* Materials Project records.  A field of a record is absent (the object   *)
(* has no such attribute), null (the attribute is None) or a number.       *)
(***************************************************************************)
Absent == [k |-> "absent", v |-> 0]
Null == [k |-> "null", v |-> 0]
Num(n) == [k |-> "num", v |-> n]

\* the formulas the model looks up
Formulas == { <<"A">>, <<"Z">>, <<"Q">> }

\* (formation_energy_per_atom, band_gap, density) of the records of the model
RecordShapes ==
    { <<Num(-2), Num(1), Num(1)>>,
      <<Num(-1), Num(1), Num(1)>>,
      <<Absent,  Num(1), Num(1)>>,
      <<Null,    Num(1), Num(1)>>,
      <<Num(-1), Null,   Num(1)>>,
      <<Num(-1), Num(1), Null>> }

Rec(f, shape) ==
    [k |-> "rec", formula_pretty |-> f, formation_energy_per_atom |-> shape[1],
     band_gap |-> shape[2], density |-> shape[3]]
RecordsOf(f) == { Rec(f, sh) : sh \in RecordShapes }

\* Python's None where a record is expected, and a cache slot never written
NoneRec ==
    [k |-> "none", formula_pretty |-> <<>>, formation_energy_per_atom |-> Absent,
     band_gap |-> Absent, density |-> Absent]
NotCached ==
    [k |-> "miss", formula_pretty |-> <<>>, formation_energy_per_atom |-> Absent,
     band_gap |-> Absent, density |-> Absent]

\* what mpr.materials.summary.search does: it raises, or returns entries
MaxEntries == 2
QMaxEntries == 3
Raises == [raises |-> TRUE, entries |-> <<>>]
Returns(entries) == [raises |-> FALSE, entries |-> entries]
DbReplies(f, n) == {Raises} \cup { Returns(es) : es \in SeqsUpTo(RecordsOf(f), n) }

\* the default of the sort key, lines 191 and 260
Sentinel == 9999

\* getattr(x, "formation_energy_per_atom", 9999): a number, or None
SortKey(x) ==
    IF x.formation_energy_per_atom = Absent THEN Num(Sentinel)
    ELSE x.formation_energy_per_atom

\* sorted() compares the keys with <: a None key raises TypeError as soon as
\* it is compared, which a list of two or more always does
SortRaises(xs) == Len(xs) >= 2 /\ \E i \in 1..Len(xs) : SortKey(xs[i]) = Null

\* x placed after every element of the sorted xs whose key is <= its own
RECURSIVE InsertByKey(_, _)
InsertByKey(xs, x) ==
    IF xs = <<>> THEN <<x>>
    ELSE IF SortKey(x).v < SortKey(xs[1]).v THEN <<x>> \o xs
    ELSE <<xs[1]>> \o InsertByKey(Tail(xs), x)

\* sorted(xs, key=...) when no key is None: stable, ascending
RECURSIVE SortedFrom(_, _)
SortedFrom(acc, xs) ==
    IF xs = <<>> THEN acc ELSE SortedFrom(InsertByKey(acc, xs[1]), Tail(xs))
Sorted(xs) == SortedFrom(<<>>, xs)

\* the body of query_mp_for_formula, lines 183-195
QueryResult(reply) ==
    IF reply.raises THEN NoneRec
    ELSE IF reply.entries = <<>> THEN NoneRec
    ELSE IF SortRaises(reply.entries) THEN NoneRec
    ELSE Sorted(reply.entries)[1]

QIdle ==
    /\ qreply = Raises
    /\ qresult = NoneRec
    /\ qpc = "idle"

QInit ==
    /\ qpc = "input"
    /\ qresult = NoneRec
    /\ \E f \in Formulas : qreply \in DbReplies(f, QMaxEntries)

\* a call of the undecorated query_mp_for_formula
QueryCall ==
    /\ qpc = "input"
    /\ qresult' = QueryResult(qreply)
    /\ qpc' = "done"
    /\ UNCHANGED <<qreply, xvars, pvars>>

(***************************************************************************)
(* The script: API setup, the button handler, find_best_material           *)
(***************************************************************************)
\* os.getenv gives None or a string; line 42 tests "not KEY"
KeyValues == { NoneText, <<>>, <<"A">> }
KeyMissing(key) == key = NoneText \/ key = <<>>
\* a variant that halts only when every key is missing
AnyKeyMissing_All(ks) ==
    KeyMissing(ks.openai) /\ KeyMissing(ks.gemini) /\ KeyMissing(ks.mp)

\* line 42
AnyKeyMissing(ks) ==
    KeyMissing(ks.openai) \/ KeyMissing(ks.gemini) \/ KeyMissing(ks.mp)

\* the goals the user may enter: nothing, blanks, a goal
QueryInputs == { <<>>, <<SP>>, <<"a">> }

\* what a provider call does: it raises, or returns a content (None or a text)
PRaises == [raises |-> TRUE, content |-> NoneText]
PReturns(t) == [raises |-> FALSE, content |-> t]
A1 == <<"A">>
Z1 == <<"Z">>
Q1 == <<"Q">>
ProseText == <<"A", COMMA, SP, "Z">>
GenTexts ==
    { Render(<<A1, Z1>>),
      Fence \o PythonTag \o <<NL>> \o Render(<<Z1, A1, Z1>>) \o <<NL>> \o Fence,
      Render(<<Z1>>),
      ProseText }
EvalTexts ==
    { Render(<<A1, Z1>>),
      Render(<<Z1>>),
      ProseText,
      Render(<<Q1, <<"A", SP, "Z">>, A1>>) }
GenReplies == {PRaises, PReturns(NoneText)} \cup { PReturns(t) : t \in GenTexts }
EvalReplies == {PRaises, PReturns(NoneText)} \cup { PReturns(t) : t \in EvalTexts }

\* generate_*_formulas and evaluate_*_materials, lines 57-124: the reply is
\* parsed inside the try, a raised call gives []
FormulasOf(reply) ==
    IF reply.raises THEN <<>> ELSE extract_formulas(reply.content)

\* a variant that concatenates without removing duplicates
Combine_NoDedup(a, b) == a \o b

\* lines 291-297
Combine(a, b) == Dedup(a \o b)

\* a variant that keeps a candidate either evaluator approved
RECURSIVE Consensus_Either(_, _, _)
Consensus_Either(comb, ea, eb) ==
    IF comb = <<>> THEN <<>>
    ELSE IF InSeq(comb[1], ea) \/ InSeq(comb[1], eb)
           THEN <<comb[1]>> \o Consensus_Either(Tail(comb), ea, eb)
           ELSE Consensus_Either(Tail(comb), ea, eb)

\* a variant that takes the first evaluator's list as it is, filtered by
\* the second's only
RECURSIVE Consensus_FromEval(_, _, _)
Consensus_FromEval(comb, ea, eb) ==
    IF ea = <<>> THEN <<>>
    ELSE IF InSeq(ea[1], eb)
           THEN <<ea[1]>> \o Consensus_FromEval(comb, Tail(ea), eb)
           ELSE Consensus_FromEval(comb, Tail(ea), eb)

\* line 304
RECURSIVE Consensus(_, _, _)
Consensus(comb, ea, eb) ==
    IF comb = <<>> THEN <<>>
    ELSE IF InSeq(comb[1], ea) /\ InSeq(comb[1], eb)
           THEN <<comb[1]>> \o Consensus(Tail(comb), ea, eb)
           ELSE Consensus(Tail(comb), ea, eb)

\* the f-string format f"{x:.3f}" raises TypeError on None
FormatRaises(field) == field = Null

\* the script run ended by an exception nothing caught, at that line
Crashes == {"TypeError@253", "TypeError@260", "TypeError@322", "TypeError@360"}

\* line 260: [:3]
TopN == 3
Take(xs, n) == IF Len(xs) <= n THEN xs ELSE SubSeq(xs, 1, n)

\* a variant that remembers records only, so that a failed or empty lookup
\* is tried again
CacheStore_SkipNone(c, f, result) ==
    IF result.k = "rec" THEN [c EXCEPT ![f] = result] ELSE c

\* @st.cache_resource, line 180: the returned value is stored under the argument
CacheStore(c, f, result) == [c EXCEPT ![f] = result]

\* a cap on the calls of the database per formula
MaxQueries == 2

NotCalled == <<<<"NotCalled">>>>
FreshLocals ==
    /\ openai_formulas' = <<>>
    /\ gemini_formulas' = <<>>
    /\ combined' = <<>>
    /\ openai_eval' = <<>>
    /\ gemini_eval' = <<>>
    /\ final_materials' = <<>>
    /\ material_list' = [openai |-> NotCalled, gemini |-> NotCalled]
    /\ idx' = 0
    /\ candidates' = <<>>
    /\ best_list' = <<>>
    /\ ridx' = 0

PInit ==
    /\ keys \in [openai : KeyValues, gemini : KeyValues, mp : KeyValues]
    /\ clients = FALSE
    /\ pc = "start"
    /\ clicked = FALSE
    /\ user_query = <<>>
    /\ openai_formulas = <<>>
    /\ gemini_formulas = <<>>
    /\ combined = <<>>
    /\ openai_eval = <<>>
    /\ gemini_eval = <<>>
    /\ final_materials = <<>>
    /\ material_list = [openai |-> NotCalled, gemini |-> NotCalled]
    /\ idx = 0
    /\ candidates = <<>>
    /\ best_list = <<>>
    /\ ridx = 0
    /\ cache = [f \in Formulas |-> NotCached]
    /\ dbqueries = [f \in Formulas |-> 0]
    /\ lookups = <<>>
    /\ served = {}
    /\ returned = {}
    /\ failed = {}
    /\ outcome = "none"

\* lines 42-44: a key is missing, st.error and st.stop()
StartupHalt ==
    /\ pc = "start"
    /\ AnyKeyMissing(keys)
    /\ pc' = "halted"
    /\ failed' = failed \cup {"api_keys"}
    /\ UNCHANGED <<xvars, qvars, keys, clients, clicked, user_query, locals, cache,
                   dbqueries, lookups, served, returned, outcome>>

\* lines 46-49 and 265-277: the clients are constructed, the page is drawn,
\* and a click with a goal enters the handler
StartupRun ==
    /\ pc = "start"
    /\ ~AnyKeyMissing(keys)
    /\ clients' = TRUE
    /\ IF ~clicked THEN pc' = "idle" /\ outcome' = outcome
       ELSE IF Strip(user_query) = <<>> THEN pc' = "idle" /\ outcome' = "blank_goal"
       ELSE pc' = "gen_openai" /\ outcome' = outcome
    /\ UNCHANGED <<xvars, qvars, keys, clicked, user_query, locals, cache,
                   dbqueries, lookups, served, returned, failed>>

\* a reload of the halted page runs the script again
Reload ==
    /\ pc = "halted"
    /\ pc' = "start"
    /\ UNCHANGED <<xvars, qvars, keys, clients, clicked, user_query, locals, cache,
                   dbqueries, lookups, served, returned, failed, outcome>>

\* the user enters a goal and clicks: the script runs again from its top,
\* with the process-wide cache kept
Click ==
    /\ pc = "idle"
    /\ \E q \in QueryInputs : user_query' = q
    /\ clicked' = TRUE
    /\ clients' = FALSE
    /\ pc' = "start"
    /\ FreshLocals
    /\ lookups' = <<>>
    /\ served' = {}
    /\ returned' = {}
    /\ failed' = {}
    /\ outcome' = "none"
    /\ UNCHANGED <<xvars, qvars, keys, cache, dbqueries>>

\* line 280
GenOpenAI ==
    /\ pc = "gen_openai"
    /\ \E reply \in GenReplies :
          /\ openai_formulas' = FormulasOf(reply)
          /\ failed' = IF reply.raises THEN failed \cup {"openai_gen"} ELSE failed
    /\ returned' = returned \cup {"openai_gen"}
    /\ pc' = "gen_gemini"
    /\ UNCHANGED <<xvars, qvars, keys, clients, clicked, user_query, gemini_formulas, combined,
                   openai_eval, gemini_eval, final_materials, material_list, idx,
                   candidates, best_list, ridx, cache, dbqueries, lookups, served,
                   outcome>>

\* lines 281-297
GenGemini ==
    /\ pc = "gen_gemini"
    /\ \E reply \in GenReplies :
          /\ gemini_formulas' = FormulasOf(reply)
          /\ failed' = IF reply.raises THEN failed \cup {"gemini_gen"} ELSE failed
    /\ combined' = Combine(openai_formulas, gemini_formulas')
    /\ returned' = returned \cup {"gemini_gen"}
    /\ pc' = "eval_openai"
    /\ UNCHANGED <<xvars, qvars, keys, clients, clicked, user_query, openai_formulas,
                   openai_eval, gemini_eval, final_materials, material_list, idx,
                   candidates, best_list, ridx, cache, dbqueries, lookups, served,
                   outcome>>

\* line 301
EvalOpenAI ==
    /\ pc = "eval_openai"
    /\ material_list' = [material_list EXCEPT !.openai = combined]
    /\ \E reply \in EvalReplies :
          /\ openai_eval' = FormulasOf(reply)
          /\ failed' = IF reply.raises THEN failed \cup {"openai_eval"} ELSE failed
    /\ returned' = returned \cup {"openai_eval"}
    /\ pc' = "eval_gemini"
    /\ UNCHANGED <<xvars, qvars, keys, clients, clicked, user_query, openai_formulas,
                   gemini_formulas, combined, gemini_eval, final_materials, idx,
                   candidates, best_list, ridx, cache, dbqueries, lookups, served,
                   outcome>>

\* lines 302-313, up to the call of find_best_material
EvalGemini ==
    /\ pc = "eval_gemini"
    /\ material_list' = [material_list EXCEPT !.gemini = combined]
    /\ \E reply \in EvalReplies :
          /\ gemini_eval' = FormulasOf(reply)
          /\ failed' = IF reply.raises THEN failed \cup {"gemini_eval"} ELSE failed
    /\ final_materials' = Consensus(combined, openai_eval, gemini_eval')
    /\ returned' = returned \cup {"gemini_eval"}
    /\ idx' = 1
    /\ pc' = "find_best"
    /\ UNCHANGED <<xvars, qvars, keys, clients, clicked, user_query, openai_formulas,
                   gemini_formulas, combined, openai_eval, candidates, best_list,
                   ridx, cache, dbqueries, lookups, served,
                   outcome>>

\* lines 249-256 of find_best_material, for the result of one lookup
AfterLookup(result) ==
    IF result.k # "rec"
      THEN /\ candidates' = candidates
           /\ idx' = idx + 1
           /\ UNCHANGED <<pc, outcome>>
    ELSE IF \/ FormatRaises(result.formation_energy_per_atom)
            \/ FormatRaises(result.band_gap)
      THEN \* line 253 raises TypeError, which nothing catches
           /\ pc' = "idle"
           /\ outcome' = "TypeError@253"
           /\ UNCHANGED <<candidates, idx>>
    ELSE /\ candidates' = Append(candidates, result)
         /\ idx' = idx + 1
         /\ UNCHANGED <<pc, outcome>>

\* lines 246-256: one turn of the loop, with the memoized query_mp_for_formula
LookupStep ==
    /\ pc = "find_best"
    /\ idx <= Len(final_materials)
    /\ LET f == final_materials[idx]
           hit == cache[f] # NotCached
       IN /\ lookups' = Append(lookups, f)
          /\ served' = IF hit THEN served \cup {f} ELSE served
          /\ \/ /\ hit
                /\ UNCHANGED <<cache, dbqueries>>
                /\ AfterLookup(cache[f])
             \/ /\ ~hit
                /\ dbqueries[f] < MaxQueries
                /\ \E reply \in DbReplies(f, MaxEntries) :
                      /\ cache' = CacheStore(cache, f, QueryResult(reply))
                      /\ AfterLookup(QueryResult(reply))
                /\ dbqueries' = [dbqueries EXCEPT ![f] = @ + 1]
    /\ UNCHANGED <<xvars, qvars, keys, clients, clicked, user_query,
                   openai_formulas, gemini_formulas, combined, openai_eval,
                   gemini_eval, final_materials, material_list, best_list, ridx,
                   returned, failed>>

\* line 260
RankTop(found) == Take(Sorted(found), TopN)

\* lines 257-260, then 315 and 406-407
FindBestReturn ==
    /\ pc = "find_best"
    /\ idx > Len(final_materials)
    /\ IF candidates = <<>>
         THEN /\ best_list' = <<>>
              /\ pc' = "idle"
              /\ outcome' = "no_suitable"
       ELSE IF SortRaises(candidates)
         THEN /\ best_list' = best_list
              /\ pc' = "idle"
              /\ outcome' = "TypeError@260"
       ELSE /\ best_list' = RankTop(candidates)
            /\ pc' = "table"
            /\ outcome' = outcome
    /\ UNCHANGED <<xvars, qvars, keys, clients, clicked, user_query,
                   openai_formulas, gemini_formulas, combined, openai_eval,
                   gemini_eval, final_materials, material_list, idx, candidates,
                   ridx, cache, dbqueries, lookups, served,
                   returned, failed>>

\* lines 316-347: the table formats three fields of every record
RenderTable ==
    /\ pc = "table"
    /\ IF \E i \in 1..Len(best_list) :
             \/ FormatRaises(best_list[i].formation_energy_per_atom)
             \/ FormatRaises(best_list[i].band_gap)
             \/ FormatRaises(best_list[i].density)
         THEN /\ pc' = "idle"
              /\ outcome' = "TypeError@322"
              /\ ridx' = ridx
         ELSE /\ pc' = "viewers"
              /\ outcome' = outcome
              /\ ridx' = 1
    /\ UNCHANGED <<xvars, qvars, keys, clients, clicked, user_query,
                   openai_formulas, gemini_formulas, combined, openai_eval,
                   gemini_eval, final_materials, material_list, idx, candidates,
                   best_list, cache, dbqueries, lookups, served,
                   returned, failed>>

\* lines 348-405, one record: the caption formats two fields (line 360), the
\* viewer is shown or its failure is caught (line 385), the structure files
\* are made or are None (lines 222-238)
RenderCandidate ==
    /\ pc = "viewers"
    /\ ridx <= Len(best_list)
    /\ IF \/ FormatRaises(best_list[ridx].formation_energy_per_atom)
          \/ FormatRaises(best_list[ridx].band_gap)
         THEN /\ pc' = "idle"
              /\ outcome' = "TypeError@360"
              /\ UNCHANGED <<ridx, failed>>
         ELSE /\ \E viewer \in {"html", "raises"}, files \in {"made", "none"} :
                    failed' = failed \cup (IF viewer = "raises" THEN {"viewer"} ELSE {})
                                     \cup (IF files = "none" THEN {"files"} ELSE {})
              /\ ridx' = ridx + 1
              /\ IF ridx = Len(best_list)
                   THEN pc' = "idle" /\ outcome' = "rendered"
                   ELSE UNCHANGED <<pc, outcome>>
    /\ UNCHANGED <<xvars, qvars, keys, clients, clicked, user_query,
                   openai_formulas, gemini_formulas, combined, openai_eval,
                   gemini_eval, final_materials, material_list, idx, candidates,
                   best_list, cache, dbqueries, lookups, served,
                   returned>>

(***************************************************************************)
(* Specifications                                                          *)
(***************************************************************************)
\* the script is not running: all keys set, nothing called
PIdle ==
    /\ PInit
    /\ keys = [openai |-> <<"A">>, gemini |-> <<"A">>, mp |-> <<"A">>]

Init == PInit /\ XIdle /\ QIdle

Next ==
    \/ StartupHalt
    \/ StartupRun
    \/ Reload
    \/ Click
    \/ GenOpenAI
    \/ GenGemini
    \/ EvalOpenAI
    \/ EvalGemini
    \/ LookupStep
    \/ FindBestReturn
    \/ RenderTable
    \/ RenderCandidate

\* the application: startup and any sequence of script runs
Spec == Init /\ [][Next]_vars

\* extract_formulas as a function of its text
InitExtract == XInit /\ QIdle /\ PIdle
NextExtract == ExtractCall
SpecExtract == InitExtract /\ [][NextExtract]_vars

\* the body of query_mp_for_formula as a function of the database's reply
InitQuery == QInit /\ XIdle /\ PIdle
NextQuery == QueryCall
SpecQuery == InitQuery /\ [][NextQuery]_vars

TypeOK ==
    /\ pc \in {"start", "halted", "idle", "gen_openai", "gen_gemini", "eval_openai",
               "eval_gemini", "find_best", "table", "viewers"}
    /\ outcome \in {"none", "blank_goal", "no_suitable", "rendered"} \cup Crashes
    /\ \A f \in Formulas : cache[f] \in RecordsOf(f) \cup {NoneRec, NotCached}

(***************************************************************************)
(* Properties                                                              *)
(***************************************************************************)
Elems(s) == { s[i] : i \in 1..Len(s) }
NoDups(s) == \A i, j \in 1..Len(s) : i # j => s[i] # s[j]
IsPrefix(a, b) == Len(a) <= Len(b) /\ \A i \in 1..Len(a) : a[i] = b[i]
\* a is b with some elements left out
IsSubseq(a, b) ==
    \E p \in [1..Len(a) -> 1..Len(b)] :
        /\ \A i, j \in 1..Len(a) : i < j => p[i] < p[j]
        /\ \A i \in 1..Len(a) : a[i] = b[p[i]]

\* the elements of a list of strings that are formulas once trimmed
RECURSIVE FormulaElems(_)
FormulaElems(elems) ==
    IF elems = <<>> THEN <<>>
    ELSE (IF IsFormulaToken(Strip(elems[1])) THEN <<Strip(elems[1])>> ELSE <<>>)
         \o FormulaElems(Tail(elems))

\* C1: for a text that contains a well-formed literal list of strings, with
\* whatever characters before the list or inside its elements,
\* extract_formulas returns exactly the list's elements that are formulas
\* once trimmed, in list order, later duplicates removed.
C1_ExtractsEmbeddedList ==
    (xpc = "done" /\ embedded # NoList) => xresult = Dedup(FormulaElems(embedded))

\* the text has no "[", or no "]" after its first "["
NoBracketSpan(t) ==
    \A i \in 1..Len(t) : t[i] = LB => \A j \in (i + 1)..Len(t) : t[j] # RB
\* neither parser accepts the first bracketed span of the cleaned text
SpanRejected(t) ==
    LET c == StripFences(t)
        m == SearchList(c)
    IN /\ m[1] # 0
       /\ literal_eval(SubSeq(c, m[1], m[2])) = ParseError
       /\ json_loads(SubSeq(c, m[1], m[2])) = ParseError

\* C7: for a text with no list to parse (None, the empty string, no
\* brackets, an unterminated "[", a bracketed span neither parser accepts)
\* extract_formulas returns the empty list: nothing is scraped from the
\* prose; and whatever the text, what it returns is a list of distinct
\* formula tokens.
C7_NoListGivesEmpty ==
    xpc = "done" =>
        /\ (text = NoneText \/ NoBracketSpan(text) \/ SpanRejected(text))
              => xresult = <<>>
        /\ \A i \in 1..Len(xresult) : IsFormulaToken(xresult[i])
        /\ NoDups(xresult)

\* a text with a bracketed span that holds a formula outside any string
C7_Witness ==
    /\ xpc = "done"
    /\ embedded = NoList
    /\ text # NoneText
    /\ SpanRejected(text)
    /\ \E i \in 1..Len(text) : text[i] = "A"
    /\ xresult = <<>>

\* the rank of a record: its formation energy, 9999 when it has none
Rank9999(x) ==
    IF x.formation_energy_per_atom.k = "num" THEN x.formation_energy_per_atom.v
    ELSE Sentinel

\* C5: when the database returns one or more records, query_mp_for_formula
\* returns one of them whose formation energy is minimal, a record without
\* one counting as 9999; such a record never makes the formula absent.
C5_ReturnsMinimalRecord ==
    (qpc = "done" /\ ~qreply.raises /\ qreply.entries # <<>>) =>
        /\ qresult \in Elems(qreply.entries)
        /\ \A e \in Elems(qreply.entries) : Rank9999(qresult) <= Rank9999(e)

\* C2: no script run ends with an exception that nothing caught.
C2_NoUncaughtException == outcome \notin Crashes

\* find_best_material has returned or raised in this script run
FindBestFinished ==
    \/ pc \in {"table", "viewers"}
    \/ pc = "idle" /\ outcome \in {"no_suitable", "rendered"} \cup Crashes

\* the found lookup results of the formulas, in their order
RECURSIVE FoundOf(_)
FoundOf(fs) ==
    IF fs = <<>> THEN <<>>
    ELSE (IF cache[fs[1]].k = "rec" THEN <<cache[fs[1]]>> ELSE <<>>) \o FoundOf(Tail(fs))

\* best holds the n first records of found in ascending rank, equal ranks
\* in the order of found
IsRankedTop(best, found, n) ==
    /\ Len(best) <= n
    /\ \E p \in [1..Len(best) -> 1..Len(found)] :
          /\ \A i \in 1..Len(best) : best[i] = found[p[i]]
          /\ \A i, j \in 1..Len(best) : i < j =>
                \/ Rank9999(found[p[i]]) < Rank9999(found[p[j]])
                \/ Rank9999(found[p[i]]) = Rank9999(found[p[j]]) /\ p[i] < p[j]
          /\ \A m \in 1..Len(found) : (\A i \in 1..Len(best) : p[i] # m) =>
                /\ Len(best) = n
                /\ \A i \in 1..Len(best) :
                      \/ Rank9999(found[p[i]]) < Rank9999(found[m])
                      \/ Rank9999(found[p[i]]) = Rank9999(found[m]) /\ p[i] < m

\* C4: find_best_material returns at most 3 of the found lookup results of
\* its formulas, in ascending formation energy, a record without one ranked
\* as 9999, equal energies in input order; absent lookups are left out.
C4_ReturnsRankedTop3 ==
    FindBestFinished =>
        /\ outcome \notin {"TypeError@253", "TypeError@260"}
        /\ IsRankedTop(best_list, FoundOf(final_materials), TopN)

ConsensusDone == "gemini_eval" \in returned

\* C3: final_materials is a subsequence of combined; a candidate is in it
\* exactly when both evaluators approved it; nothing outside combined is
\* ever accepted; empty inputs give an empty list.
C3_ConsensusIsIntersection ==
    ConsensusDone =>
        /\ IsSubseq(final_materials, combined)
        /\ \A c \in Elems(combined) :
              InSeq(c, final_materials) <=> (InSeq(c, openai_eval) /\ InSeq(c, gemini_eval))
        /\ Elems(final_materials) \subseteq Elems(combined)
        /\ (combined = <<>> \/ openai_eval = <<>> \/ gemini_eval = <<>>)
              => final_materials = <<>>

\* an evaluator approved Q, which is no candidate; Z was approved by one only
C3_Witness ==
    /\ ConsensusDone
    /\ combined = <<A1, Z1>>
    /\ InSeq(Q1, openai_eval)
    /\ gemini_eval = <<A1, Z1>>
    /\ final_materials = <<A1>>

AllCalls == {"openai_gen", "gemini_gen", "openai_eval", "gemini_eval"}

\* C9: the list passed to both evaluators holds exactly the tokens of the two
\* providers' suggestions, without duplicates: the first provider's in their
\* order, then the second provider's that are not among them, in their
\* order; a provider whose generation failed contributes nothing, and the
\* other's suggestions are still evaluated.
C9_CombinedIsOrderedUnion ==
    "gemini_gen" \in returned =>
        /\ NoDups(combined)
        /\ Elems(combined) = Elems(openai_formulas) \cup Elems(gemini_formulas)
        /\ IsPrefix(openai_formulas, combined)
        /\ LET rest == SubSeq(combined, Len(openai_formulas) + 1, Len(combined))
           IN /\ IsSubseq(rest, gemini_formulas)
              /\ \A g \in Elems(gemini_formulas) :
                    InSeq(g, rest) <=> ~InSeq(g, openai_formulas)
        /\ "openai_gen" \in failed => openai_formulas = <<>> /\ combined = gemini_formulas
        /\ "gemini_gen" \in failed => gemini_formulas = <<>> /\ combined = openai_formulas
        /\ material_list.openai \in {NotCalled, combined}
        /\ material_list.gemini \in {NotCalled, combined}
        /\ "openai_eval" \in returned => material_list.openai = combined
        /\ "gemini_eval" \in returned => material_list.gemini = combined

\* the second provider repeats Z and adds A; both evaluators got the list
C9_Witness ==
    /\ openai_formulas = <<Z1>>
    /\ gemini_formulas = <<A1, Z1>>
    /\ combined = <<Z1, A1>>
    /\ material_list = [openai |-> combined, gemini |-> combined]

\* the script run has ended after its evaluations
RunEnded == pc = "idle" /\ ConsensusDone

\* C10: query_mp_for_formula is called only after the four provider calls
\* of the run have returned, only for candidates both evaluators approved,
\* in the order of final_materials; when an evaluation failed or gave no
\* list, nothing is looked up and the run ends with no suitable material.
C10_LookupsFollowConsensus ==
    /\ lookups # <<>> =>
          /\ returned = AllCalls
          /\ IsPrefix(lookups, final_materials)
          /\ \A f \in Elems(lookups) :
                InSeq(f, combined) /\ InSeq(f, openai_eval) /\ InSeq(f, gemini_eval)
    /\ (ConsensusDone /\ (openai_eval = <<>> \/ gemini_eval = <<>>)) =>
          /\ lookups = <<>>
          /\ RunEnded => outcome = "no_suitable"
    /\ returned # AllCalls => served = {}

\* both candidates were approved and looked up, in order
C10_Witness ==
    /\ returned = AllCalls
    /\ final_materials = <<Z1, A1>>
    /\ lookups = <<Z1, A1>>

\* C6: over any sequence of script runs the database is queried at most once
\* per formula, and what the first query gave (a record or no result) stays
\* in the cache unchanged.
C6_QueriedOncePerFormula ==
    /\ [](\A f \in Formulas : dbqueries[f] <= 1)
    /\ [](\A f \in Formulas : (dbqueries[f] = 0) <=> (cache[f] = NotCached))
    /\ [][\A f \in Formulas : cache[f] # NotCached => cache'[f] = cache[f]]_vars

\* a later run's lookup of A was answered from the cache with "no result"
C6_Witness ==
    /\ A1 \in served
    /\ cache[A1] = NoneRec
    /\ dbqueries[A1] = 1

\* C8: with a key missing or empty the script halts with an error before a
\* client is constructed, and no provider call, lookup or handler stage runs.
C8_MissingKeyHaltsBeforeWork ==
    (\E key \in {keys.openai, keys.gemini, keys.mp} : key = NoneText \/ key = <<>>) =>
        /\ ~clients
        /\ pc \in {"start", "halted"}
        /\ pc = "halted" => "api_keys" \in failed
        /\ returned = {}
        /\ lookups = <<>>
        /\ \A f \in Formulas : dbqueries[f] = 0 /\ cache[f] = NotCached
        /\ outcome = "none"

\* only the Materials Project key is empty, and the script has halted
C8_Witness ==
    /\ keys = [openai |-> <<"A">>, gemini |-> <<"A">>, mp |-> <<>>]
    /\ pc = "halted"
    /\ "api_keys" \in failed

====
